---- MODULE Spec2Model ----
(***************************************************************************)
(* A model of the shell's lexer/parser (src/src/parser.rs) and of its      *)
(* redirection-aware output routine (src/src/utils.rs).                    *)
(*                                                                         *)
(* A string is a sequence of one-character strings, so that the character  *)
(* scan of tokenize, the first-byte test of expand_home_path and the       *)
(* concatenations done by the file writes are computed, not assumed.       *)
(***************************************************************************)
EXTENDS Integers, Sequences, FiniteSets, TLC

VARIABLES
    pc,                 \* position in parse_command / in the harness
    line,               \* the raw input line handed to tokenize
    words,              \* the token list a line was joined from (round trip)
    input,              \* tokenize: the trimmed input
    idx,                \* tokenize: index of the next character of input
    tokens,             \* tokenize: the tokens completed so far
    curr,               \* tokenize: the fragment being accumulated
    in_single_quote,    \* tokenize: flag
    in_double_quote,    \* tokenize: flag
    to_escape,          \* tokenize: flag
    command_tokens,     \* split_tokens: first half of the result
    redirection_tokens, \* split_tokens: second half of the result
    redirection,        \* parse_redirection: Option<Redirection>
    command,            \* parse: the Command built
    initial_files,      \* the file system before the first write_output
    files,              \* the file system: path -> the file there, or NoFile
    terminal,           \* what print! has written so far
    calls,              \* the write_output invocations made so far
    path_dirs,          \* the directories of PATH, in listed order
    resolved,           \* what arg_check_in_path returned to the handler
    child,              \* how the spawned child process ended
    cwd,                \* the current directory
    stdin,              \* the lines not yet read from standard input
    events              \* the prompts written and lines read by main

vars == <<pc, line, words, input, idx, tokens, curr, in_single_quote,
          in_double_quote, to_escape, command_tokens, redirection_tokens,
          redirection, command, initial_files, files, terminal, calls,
          path_dirs, resolved, child, cwd, stdin, events>>

tokVars == <<input, idx, tokens, curr, in_single_quote, in_double_quote, to_escape>>
parseVars == <<command_tokens, redirection_tokens, redirection, command>>
routeVars == <<initial_files, files, terminal, calls>>
execVars == <<path_dirs, resolved, child, cwd>>
loopVars == <<stdin, events>>

----------------------------------------------------------------------------
(* Bounds of the model.                                                    *)

MaxLineLen == 4
MaxTokens == 3
MaxCalls == 2

----------------------------------------------------------------------------
(* Characters and strings.                                                 *)

SQ == "'"
DQ == "\""
BS == "\\"
\* The backtick; SANY cannot lex it inside a string.
BT == "backtick"
DL == "$"
SP == " "
TAB == "\t"
GT == ">"

\* The characters input lines are drawn from.
Chars == {"a", SP, TAB, SQ, DQ, BS, DL, BT, GT}

\* char::is_whitespace, restricted to Chars.
IsWhitespace(c) == c \in {SP, TAB}

SeqsUpTo(S, n) == UNION {[1..k -> S] : k \in 0..n}

RECURSIVE TrimStart(_)
TrimStart(s) ==
    IF s # <<>> /\ IsWhitespace(Head(s)) THEN TrimStart(Tail(s)) ELSE s

RECURSIVE TrimEnd(_)
TrimEnd(s) ==
    IF s # <<>> /\ IsWhitespace(s[Len(s)])
    THEN TrimEnd(SubSeq(s, 1, Len(s) - 1))
    ELSE s

\* str::trim
Trim(s) == TrimEnd(TrimStart(s))

\* join(" ") of a list of strings
RECURSIVE Join(_)
Join(ws) ==
    IF ws = <<>> THEN <<>>
    ELSE IF Len(ws) = 1 THEN ws[1]
    ELSE ws[1] \o <<SP>> \o Join(Tail(ws))

----------------------------------------------------------------------------
(* tokenize (parser.rs 14-70), one action per branch of the loop body.     *)

NoCommand == [variant |-> "none"]
None == [some |-> FALSE]

Scanning == pc = "scan" /\ idx <= Len(input)
c == input[idx]

\* let input = input.trim(); and the initialisation of the locals
TokenizeBegin ==
    /\ pc = "tokenize"
    /\ input' = Trim(line)
    /\ idx' = 1
    /\ tokens' = <<>>
    /\ curr' = <<>>
    /\ in_single_quote' = FALSE
    /\ in_double_quote' = FALSE
    /\ to_escape' = FALSE
    /\ pc' = "scan"
    /\ UNCHANGED <<line, words, parseVars, routeVars, execVars, loopVars>>

\* Variants of EscapePush: the backslash dropped before every character, and
\* kept before every character that is not escapable inside double quotes.
EscapePush_DropsBackslash(dq, ch) == <<ch>>
EscapePush_KeepsBackslash(dq, ch) ==
    IF dq /\ ch \in {DQ, BS, BT, DL} THEN <<ch>> ELSE <<BS, ch>>

\* What the body of `if to_escape { ... }` pushes for character ch.
EscapePush(dq, ch) ==
    IF dq /\ ch \in {DQ, BS, BT, DL} THEN <<ch>>
    ELSE IF dq THEN <<BS, ch>>
    ELSE <<ch>>

\* if to_escape { ...; continue; }
StepEscape ==
    /\ Scanning
    /\ to_escape
    /\ curr' = curr \o EscapePush(in_double_quote, c)
    /\ to_escape' = FALSE
    /\ idx' = idx + 1
    /\ UNCHANGED <<pc, line, words, input, tokens, in_single_quote,
                   in_double_quote, parseVars, routeVars, execVars, loopVars>>

\* Variant of SingleQuoteToggles: the double-quote mode is not consulted.
SingleQuoteToggles_InDoubleQuote(ch, dq) == ch = SQ

\* The guard of the single-quote toggle.
SingleQuoteToggles(ch, dq) == ch = SQ /\ ~dq

\* if c == '\'' && !in_double_quote { toggle; continue; }
StepSingleQuote ==
    /\ Scanning
    /\ ~to_escape
    /\ SingleQuoteToggles(c, in_double_quote)
    /\ in_single_quote' = ~in_single_quote
    /\ idx' = idx + 1
    /\ UNCHANGED <<pc, line, words, input, tokens, curr, in_double_quote,
                   to_escape, parseVars, routeVars, execVars, loopVars>>

\* The guard of the double-quote toggle.
DoubleQuoteToggles(ch, sq) == ch = DQ /\ ~sq

\* if c == '"' && !in_single_quote { toggle; continue; }
StepDoubleQuote ==
    /\ Scanning
    /\ ~to_escape
    /\ ~SingleQuoteToggles(c, in_double_quote)
    /\ DoubleQuoteToggles(c, in_single_quote)
    /\ in_double_quote' = ~in_double_quote
    /\ idx' = idx + 1
    /\ UNCHANGED <<pc, line, words, input, tokens, curr, in_single_quote,
                   to_escape, parseVars, routeVars, execVars, loopVars>>

\* Variant of StartsEscape: the quote modes are not consulted.
StartsEscape_AnyBackslash(ch, sq, dq) == ch = BS

\* The guard that lets a backslash start an escape.
StartsEscape(ch, sq, dq) == ch = BS /\ ((~sq /\ ~dq) \/ dq)

\* if c == '\\' && (...) { to_escape = true; continue; }
StepBackslash ==
    /\ Scanning
    /\ ~to_escape
    /\ ~SingleQuoteToggles(c, in_double_quote)
    /\ ~DoubleQuoteToggles(c, in_single_quote)
    /\ StartsEscape(c, in_single_quote, in_double_quote)
    /\ to_escape' = TRUE
    /\ idx' = idx + 1
    /\ UNCHANGED <<pc, line, words, input, tokens, curr, in_single_quote,
                   in_double_quote, parseVars, routeVars, execVars, loopVars>>

\* The guard of the token separator.
Separates(ch, sq, dq) == IsWhitespace(ch) /\ ~sq /\ ~dq

Plain ==
    /\ Scanning
    /\ ~to_escape
    /\ ~SingleQuoteToggles(c, in_double_quote)
    /\ ~DoubleQuoteToggles(c, in_single_quote)
    /\ ~StartsEscape(c, in_single_quote, in_double_quote)

\* Variant of StepWhitespace: the fragment is pushed even when it is empty.
StepWhitespace_PushesEmpty ==
    /\ Plain
    /\ Separates(c, in_single_quote, in_double_quote)
    /\ tokens' = Append(tokens, curr)
    /\ curr' = <<>>
    /\ idx' = idx + 1
    /\ UNCHANGED <<pc, line, words, input, in_single_quote, in_double_quote,
                   to_escape, parseVars, routeVars, execVars, loopVars>>

\* if c.is_whitespace() && !in_single_quote && !in_double_quote { flush }
StepWhitespace ==
    /\ Plain
    /\ Separates(c, in_single_quote, in_double_quote)
    /\ IF curr # <<>>
       THEN tokens' = Append(tokens, curr) /\ curr' = <<>>
       ELSE UNCHANGED <<tokens, curr>>
    /\ idx' = idx + 1
    /\ UNCHANGED <<pc, line, words, input, in_single_quote, in_double_quote,
                   to_escape, parseVars, routeVars, execVars, loopVars>>

\* else { curr.push(c); }
StepPush ==
    /\ Plain
    /\ ~Separates(c, in_single_quote, in_double_quote)
    /\ curr' = Append(curr, c)
    /\ idx' = idx + 1
    /\ UNCHANGED <<pc, line, words, input, tokens, in_single_quote,
                   in_double_quote, to_escape, parseVars, routeVars, execVars, loopVars>>

\* Variant of TokenizeEnd: the trailing fragment is flushed even when empty.
TokenizeEnd_FlushesEmpty ==
    /\ pc = "scan"
    /\ idx > Len(input)
    /\ tokens' = Append(tokens, curr)
    /\ pc' = "tokenized"
    /\ UNCHANGED <<line, words, input, idx, curr, in_single_quote,
                   in_double_quote, to_escape, parseVars, routeVars, execVars, loopVars>>

\* Variant of TokenizeEnd: the trailing fragment is not flushed.
TokenizeEnd_NoFinalFlush ==
    /\ pc = "scan"
    /\ idx > Len(input)
    /\ pc' = "tokenized"
    /\ UNCHANGED <<line, words, input, idx, tokens, curr, in_single_quote,
                   in_double_quote, to_escape, parseVars, routeVars, execVars, loopVars>>

\* After the loop: if !curr.is_empty() { tokens.push(curr) }; tokens
TokenizeEnd ==
    /\ pc = "scan"
    /\ idx > Len(input)
    /\ tokens' = IF curr # <<>> THEN Append(tokens, curr) ELSE tokens
    /\ pc' = "tokenized"
    /\ UNCHANGED <<line, words, input, idx, curr, in_single_quote,
                   in_double_quote, to_escape, parseVars, routeVars, execVars, loopVars>>

NextTokenize ==
    \/ TokenizeBegin
    \/ StepEscape
    \/ StepSingleQuote
    \/ StepDoubleQuote
    \/ StepBackslash
    \/ StepWhitespace
    \/ StepPush
    \/ TokenizeEnd

TokenizeIdle ==
    /\ input = <<>>
    /\ idx = 1
    /\ tokens = <<>>
    /\ curr = <<>>
    /\ in_single_quote = FALSE
    /\ in_double_quote = FALSE
    /\ to_escape = FALSE

ParseIdle ==
    /\ command_tokens = <<>>
    /\ redirection_tokens = <<>>
    /\ redirection = None
    /\ command = NoCommand

RouteIdle ==
    /\ initial_files = <<>>
    /\ files = <<>>
    /\ terminal = <<>>
    /\ calls = <<>>

NotResolved == [called |-> FALSE]
NoChild == [spawned |-> FALSE]
Cwd == <<"/", "w">>

ExecIdle ==
    /\ path_dirs = <<>>
    /\ resolved = NotResolved
    /\ child = NoChild
    /\ cwd = Cwd

LoopIdle ==
    /\ stdin = <<>>
    /\ events = <<>>


----------------------------------------------------------------------------
(* Tokens of the command language, as strings.                             *)

W_echo == <<"e", "c", "h", "o">>
W_exit == <<"e", "x", "i", "t">>
W_type == <<"t", "y", "p", "e">>
W_pwd == <<"p", "w", "d">>
W_cd == <<"c", "d">>
W_cat == <<"c", "a", "t">>
W_ls == <<"l", "s">>
W_seven == <<"7">>
W_tilde_d == <<"~", "/", "d">>

\* const REDIRECT_OPERATORS: [&str; 6]
REDIRECT_OPERATORS ==
    { <<GT>>, <<"1", GT>>, <<"2", GT>>, <<GT, GT>>, <<"1", GT, GT>>, <<"2", GT, GT>> }

\* The value of the HOME environment variable.
Home == <<"/", "h">>

\* The tokens the token lists handed to split_tokens and parse_redirection
\* are drawn from.
Vocabulary ==
    {W_echo, W_exit, W_type, W_pwd, W_cd, W_cat, W_ls, W_seven, W_tilde_d}
        \cup REDIRECT_OPERATORS

----------------------------------------------------------------------------
(* split_tokens (parser.rs 72-85).                                         *)

\* The partition closure, run over the tokens left to right: r.found is
\* found_redirect_operator, r.left and r.right the two collections.
RECURSIVE Partition(_, _)
Partition(ts, r) ==
    IF ts = <<>> THEN r
    ELSE LET token == Head(ts) IN
         IF r.found
         THEN Partition(Tail(ts), [r EXCEPT !.right = Append(@, token)])
         ELSE IF token \in REDIRECT_OPERATORS
         THEN Partition(Tail(ts), [r EXCEPT !.found = TRUE, !.right = Append(@, token)])
         ELSE Partition(Tail(ts), [r EXCEPT !.left = Append(@, token)])

\* Variant of split_tokens: found_redirect_operator is never set, so only the
\* operator tokens themselves leave the command tokens.
split_tokens_NoLatch(ts) ==
    << SelectSeq(ts, LAMBDA t : t \notin REDIRECT_OPERATORS),
       SelectSeq(ts, LAMBDA t : t \in REDIRECT_OPERATORS) >>

split_tokens(ts) ==
    LET r == Partition(ts, [found |-> FALSE, left |-> <<>>, right |-> <<>>])
    IN  <<r.left, r.right>>

\* let (command_tokens, redirection_tokens) = split_tokens(tokens);
SplitTokens ==
    /\ pc \in {"tokenized", "split_tokens"}
    /\ command_tokens' = split_tokens(tokens)[1]
    /\ redirection_tokens' = split_tokens(tokens)[2]
    /\ pc' = "split_done"
    /\ UNCHANGED <<line, words, tokVars, redirection, command, routeVars, execVars, loopVars>>

----------------------------------------------------------------------------
(* parse_redirection (parser.rs 87-115).                                   *)

Some(kind, channel, file) ==
    [some |-> TRUE, kind |-> kind, channel |-> channel, file |-> file]

Panic == [panic |-> TRUE]

\* The match on redirection_tokens[0]; rts[2] is read in every operator arm,
\* and the read panics when the list has one element.
parse_redirection(rts) ==
    IF rts = <<>> THEN None
    ELSE IF rts[1] \in REDIRECT_OPERATORS /\ Len(rts) < 2 THEN Panic
    ELSE IF rts[1] \in {<<GT>>, <<"1", GT>>} THEN Some("Redirect", "Stdout", rts[2])
    ELSE IF rts[1] = <<"2", GT>> THEN Some("Redirect", "Stderr", rts[2])
    ELSE IF rts[1] \in {<<GT, GT>>, <<"1", GT, GT>>} THEN Some("Append", "Stdout", rts[2])
    ELSE IF rts[1] = <<"2", GT, GT>> THEN Some("Append", "Stderr", rts[2])
    ELSE None

\* let redirection_command = parse_redirection(&redirection_tokens);
ParseRedirection ==
    /\ pc \in {"split_done", "parse_redirection"}
    /\ LET r == parse_redirection(redirection_tokens) IN
         IF r = Panic
         THEN pc' = "panic_parse_redirection" /\ UNCHANGED redirection
         ELSE /\ redirection' = r
              /\ pc' = IF pc = "split_done" THEN "redirection_done"
                       ELSE "redirection_returned"
    /\ UNCHANGED <<line, words, tokVars, command_tokens, redirection_tokens,
                   command, routeVars, execVars, loopVars>>

----------------------------------------------------------------------------
(* expand_home_path (utils.rs 6-18) and parse (parser.rs 117-155).         *)

expand_home_path(path) ==
    IF path # <<>> /\ path[1] = "~" THEN Home \o Tail(path) ELSE path

Digits == <<"0", "1", "2", "3", "4", "5", "6", "7", "8", "9">>
IsDigit(ch) == \E d \in 1..10 : Digits[d] = ch
DigitValue(ch) == (CHOOSE d \in 1..10 : Digits[d] = ch) - 1

I32Max == 2147483647

RECURSIVE DecimalValue(_, _)
DecimalValue(s, acc) ==
    IF s = <<>> THEN acc ELSE DecimalValue(Tail(s), 10 * acc + DigitValue(Head(s)))

\* str::parse::<i32>: an optional sign, then one or more digits, in range.
ParseI32(s) ==
    LET signed == s # <<>> /\ s[1] \in {"+", "-"}
        digits == IF signed THEN Tail(s) ELSE s
        wellFormed == digits # <<>> /\ \A i \in 1..Len(digits) : IsDigit(digits[i])
        magnitude == DecimalValue(digits, 0)
        negative == signed /\ s[1] = "-"
    IN  IF ~wellFormed THEN [ok |-> FALSE]
        ELSE IF negative /\ magnitude <= I32Max + 1 THEN [ok |-> TRUE, value |-> 0 - magnitude]
        ELSE IF ~negative /\ magnitude <= I32Max THEN [ok |-> TRUE, value |-> magnitude]
        ELSE [ok |-> FALSE]

\* command_tokens[1..].to_vec()
Rest(ts) == SubSeq(ts, 2, Len(ts))

MapExpand(ts) == [i \in 1..Len(ts) |-> expand_home_path(ts[i])]

\* The match on command_tokens[0]; an index past the end and an unwrap of a
\* failed parse panic.
parse(cts, redir) ==
    IF cts = <<>> THEN Panic
    ELSE IF cts[1] = W_echo
    THEN [variant |-> "Echo", args |-> Rest(cts), redirection |-> redir]
    ELSE IF cts[1] = W_exit
    THEN IF Len(cts) > 1
         THEN IF ParseI32(cts[2]).ok
              THEN [variant |-> "Exit", arg |-> ParseI32(cts[2]).value]
              ELSE Panic
         ELSE [variant |-> "Exit", arg |-> 0]
    ELSE IF cts[1] = W_type
    THEN IF Len(cts) > 1
         THEN [variant |-> "Type", arg |-> cts[2], redirection |-> redir]
         ELSE Panic
    ELSE IF cts[1] = W_pwd
    THEN [variant |-> "Pwd", redirection |-> redir]
    ELSE IF cts[1] = W_cd
    THEN IF Len(cts) > 1
         THEN [variant |-> "Cd", arg |-> expand_home_path(cts[2])]
         ELSE Panic
    ELSE IF cts[1] = W_cat
    THEN [variant |-> "Cat", args |-> MapExpand(Rest(cts)), redirection |-> redir]
    ELSE [variant |-> "External", name |-> cts[1], args |-> Rest(cts),
          redirection |-> redir]

\* parse(&command_tokens, redirection_command)
Parse ==
    /\ pc = "redirection_done"
    /\ LET r == parse(command_tokens, redirection) IN
         IF r = Panic
         THEN pc' = "panic_parse" /\ UNCHANGED command
         ELSE command' = r /\ pc' = "parsed"
    /\ UNCHANGED <<line, words, tokVars, command_tokens, redirection_tokens,
                   redirection, routeVars, execVars, loopVars>>

----------------------------------------------------------------------------
(* parse_command (parser.rs 6-12) on a line, and its parts on token lists. *)

NextParse ==
    \/ SplitTokens
    \/ ParseRedirection
    \/ Parse

\* parse_command is called on a line; or split_tokens, followed by the rest
\* of parse_command, on a token list; or parse_redirection alone on a token
\* list.
Init ==
    /\ words = <<>>
    /\ RouteIdle
    /\ ExecIdle
    /\ LoopIdle
    /\ \/ /\ pc = "tokenize"
          /\ line \in SeqsUpTo(Chars, MaxLineLen)
          /\ TokenizeIdle
          /\ ParseIdle
       \/ /\ pc = "split_tokens"
          /\ line = <<>>
          /\ tokens \in SeqsUpTo(Vocabulary, MaxTokens)
          /\ input = <<>>
          /\ idx = 1
          /\ curr = <<>>
          /\ in_single_quote = FALSE
          /\ in_double_quote = FALSE
          /\ to_escape = FALSE
          /\ ParseIdle
       \/ /\ pc = "parse_redirection"
          /\ line = <<>>
          /\ TokenizeIdle
          /\ command_tokens = <<>>
          /\ redirection_tokens \in SeqsUpTo(Vocabulary, MaxTokens)
          /\ redirection = None
          /\ command = NoCommand

Next == NextTokenize \/ NextParse

Spec == Init /\ [][Next]_vars

----------------------------------------------------------------------------
(* write_output (utils.rs 25-56) over a file system of two paths in a      *)
(* writable directory.                                                     *)

P_f == <<"/", "f">>
P_g == <<"/", "g">>
Paths == {P_f, P_g}

NoFile == [exists |-> FALSE]
File(content) == [exists |-> TRUE, content |-> content]

\* The texts handed to write_output.
Chunks == {<<>>, <<"a">>, <<"b">>}

Redirections ==
    {Some(k, ch, f) : k \in {"Redirect", "Append"}, ch \in {"Stdout", "Stderr"}, f \in Paths}

\* Variant of FsWrite: the text is added to what the file holds.
FsWrite_KeepsContent(fs, path, text) ==
    [fs EXCEPT ![path] = IF @.exists THEN File(@.content \o text) ELSE File(text)]

\* fs::write(path, text): creates the file or replaces its content.
FsWrite(fs, path, text) == [fs EXCEPT ![path] = File(text)]

\* OpenOptions::new().create(true).append(true).open(path), seek to the end,
\* write(text).
FsAppend(fs, path, text) ==
    [fs EXCEPT ![path] = IF @.exists THEN File(@.content \o text) ELSE File(text)]

\* fs::metadata(path).is_err()
MetadataIsErr(fs, path) == ~fs[path].exists

\* Variant of EnsuresEmpty: the existence test is left out.
EnsuresEmpty_Always(fs, r) == r.kind \in {"Redirect", "Append"}

\* The first if of write_output: which redirections empty the file first.
EnsuresEmpty(fs, r) ==
    r.kind = "Redirect" \/ (r.kind = "Append" /\ MetadataIsErr(fs, r.file))

\* Variant of ChannelMatches: the success flag is not consulted.
ChannelMatches_IgnoresSuccess(r, success) == r.channel = "Stdout"

\* The second if of write_output: the chunk belongs to the redirected channel.
ChannelMatches(r, success) ==
    (success /\ r.channel = "Stdout") \/ (~success /\ r.channel = "Stderr")

\* The file system after write_output(output, redirection, success).
WriteOutputFiles(fs, output, r, success) ==
    IF ~r.some THEN fs
    ELSE LET fs1 == IF EnsuresEmpty(fs, r) THEN FsWrite(fs, r.file, <<>>) ELSE fs IN
         IF ChannelMatches(r, success)
         THEN IF r.kind = "Redirect"
              THEN FsWrite(fs1, r.file, output)
              ELSE FsAppend(fs1, r.file, output)
         ELSE fs1

\* What write_output(output, redirection, success) prints.
WriteOutputPrints(output, r, success) ==
    IF r.some /\ ChannelMatches(r, success) THEN <<>> ELSE output

\* One call of write_output, with any text, redirection and success flag.
WriteOutput ==
    /\ pc = "route"
    /\ Len(calls) < MaxCalls
    /\ \E output \in Chunks, r \in Redirections \cup {None}, success \in BOOLEAN :
         /\ files' = WriteOutputFiles(files, output, r, success)
         /\ terminal' = terminal \o WriteOutputPrints(output, r, success)
         /\ calls' = Append(calls, [output |-> output, redirection |-> r,
                                    success |-> success])
    /\ UNCHANGED <<pc, line, words, tokVars, parseVars, initial_files, execVars, loopVars>>

\* Each path is absent or holds a file left by an earlier command.
InitRoute ==
    /\ pc = "route"
    /\ line = <<>>
    /\ words = <<>>
    /\ TokenizeIdle
    /\ ParseIdle
    /\ files \in [Paths -> {NoFile, File(<<"x">>)}]
    /\ initial_files = files
    /\ terminal = <<>>
    /\ calls = <<>>
    /\ ExecIdle
    /\ LoopIdle

NextRoute == WriteOutput

SpecRoute == InitRoute /\ [][NextRoute]_vars

----------------------------------------------------------------------------
(* Path resolution: Command::arg_check_in_path (command.rs 61-84), the     *)
(* same loop as is_present_in_path (main.rs 114-134).  PATH is kept as the *)
(* list of its directories; directory i is DirName(i), and is unreadable   *)
(* or holds a set of entry names.                                          *)

MaxPathDirs == 2

\* The entry names a directory of PATH may hold.
Programs == {W_ls, W_echo}

DirName(i) == <<"/", "b", Digits[i + 1]>>

DirStates ==
    {[readable |-> FALSE, entries |-> {}]}
        \cup {[readable |-> TRUE, entries |-> e] : e \in SUBSET Programs}

\* e.to_string() of the error read_dir gave for a directory.
ReadError(dir) == <<"cannot read ">> \o dir

\* entry.path().display().to_string()
EntryPath(dir, name) == dir \o <<"/">> \o name

\* Variant of SearchPath: an unreadable directory is skipped.
RECURSIVE SearchPath_SkipsUnreadable(_, _, _)
SearchPath_SkipsUnreadable(dirs, i, arg) ==
    IF i > Len(dirs)
    THEN [called |-> TRUE, ok |-> FALSE, value |-> arg \o <<" not found">>, read |-> i - 1]
    ELSE IF dirs[i].readable /\ arg \in dirs[i].entries
    THEN [called |-> TRUE, ok |-> TRUE, value |-> EntryPath(DirName(i), arg), read |-> i]
    ELSE SearchPath_SkipsUnreadable(dirs, i + 1, arg)

\* The for loop over the directories, from directory i on; read is the
\* number of directories read_dir was called on.
RECURSIVE SearchPath(_, _, _)
SearchPath(dirs, i, arg) ==
    IF i > Len(dirs)
    THEN [called |-> TRUE, ok |-> FALSE, value |-> arg \o <<" not found">>, read |-> i - 1]
    ELSE IF ~dirs[i].readable
    THEN [called |-> TRUE, ok |-> FALSE, value |-> ReadError(DirName(i)), read |-> i]
    ELSE IF arg \in dirs[i].entries
    THEN [called |-> TRUE, ok |-> TRUE, value |-> EntryPath(DirName(i), arg), read |-> i]
    ELSE SearchPath(dirs, i + 1, arg)

arg_check_in_path(dirs, arg) == SearchPath(dirs, 1, arg)

\* Variant of is_builtin: cat counts as a builtin.
is_builtin_WithCat(arg) == arg \in {W_echo, W_exit, W_type, W_pwd, W_cd, W_cat}

\* Command::is_builtin (command.rs 57-59)
is_builtin(arg) == arg \in {W_echo, W_exit, W_type, W_pwd, W_cd}

----------------------------------------------------------------------------
(* Executable::execute (command.rs 92-232), one action per variant.        *)

\* One call of write_output made by a handler: its effect on the files, the
\* terminal and the record of calls.
Routed(output, r, success) ==
    /\ files' = WriteOutputFiles(files, output, r, success)
    /\ terminal' = terminal \o WriteOutputPrints(output, r, success)
    /\ calls' = Append(calls, [output |-> output, redirection |-> r,
                               success |-> success])

Newline == <<"\n">>

\* args.join(" ")
JoinArgs(args) == Join(args)

\* Command::Echo
ExecEcho ==
    /\ pc = "execute"
    /\ command.variant = "Echo"
    /\ Routed(JoinArgs(command.args) \o Newline, command.redirection, TRUE)
    /\ pc' = "executed"
    /\ UNCHANGED <<line, words, tokVars, parseVars, initial_files, execVars, loopVars>>

\* Command::Exit: exit(0)
ExecExit ==
    /\ pc = "execute"
    /\ command.variant = "Exit"
    /\ pc' = "exited"
    /\ UNCHANGED <<line, words, tokVars, parseVars, routeVars, execVars, loopVars>>

\* The text Type produces for arg, given what the path search returned.
TypeOutput(arg, r) ==
    IF is_builtin(arg) THEN arg \o <<" is a shell builtin\n">>
    ELSE IF r.ok THEN arg \o <<" is ">> \o r.value \o Newline
    ELSE arg \o <<": not found\n">>

\* The channel flag Type passes to write_output.
TypeSuccessFlag(arg, r) == TRUE

\* Command::Type
ExecType ==
    /\ pc = "execute"
    /\ command.variant = "Type"
    /\ LET r == IF is_builtin(command.arg) THEN NotResolved
                ELSE arg_check_in_path(path_dirs, command.arg)
       IN  /\ resolved' = r
           /\ Routed(TypeOutput(command.arg, r), command.redirection,
                     TypeSuccessFlag(command.arg, r))
    /\ pc' = "executed"
    /\ UNCHANGED <<line, words, tokVars, parseVars, initial_files, path_dirs,
                   child, cwd, loopVars>>

\* How std::process::Command::output() can end: the spawn fails, or the
\* child runs and leaves a status and the text of its two streams.
ChildOutcomes ==
    {[spawned |-> FALSE, failed |-> TRUE]}
        \cup {[spawned |-> TRUE, success |-> s, stdout |-> o, stderr |-> e] :
                s \in BOOLEAN, o \in {<<>>, <<"o">>}, e \in {<<>>, <<"e">>}}

\* Command::External
ExecExternal ==
    /\ pc = "execute"
    /\ command.variant = "External"
    /\ LET r == arg_check_in_path(path_dirs, command.name) IN
       /\ resolved' = r
       /\ IF r.ok
          THEN \E outcome \in ChildOutcomes :
                 /\ child' = outcome
                 /\ IF ~outcome.spawned
                    THEN pc' = "panic_execute" /\ UNCHANGED <<files, terminal, calls>>
                    ELSE /\ pc' = "executed"
                         /\ IF outcome.success
                            THEN Routed(outcome.stdout, command.redirection, TRUE)
                            ELSE Routed(outcome.stderr, command.redirection, FALSE)
          ELSE /\ child' = child
               /\ pc' = "executed"
               /\ Routed(command.name \o <<": command not found\n">>,
                         command.redirection, FALSE)
    /\ UNCHANGED <<line, words, tokVars, parseVars, initial_files, path_dirs,
                   cwd, loopVars>>

\* Command::Pwd
ExecPwd ==
    /\ pc = "execute"
    /\ command.variant = "Pwd"
    /\ Routed(cwd \o Newline, command.redirection, TRUE)
    /\ pc' = "executed"
    /\ UNCHANGED <<line, words, tokVars, parseVars, initial_files, execVars, loopVars>>

\* The directories env::set_current_dir succeeds on.
Directories == {Home, Cwd}

\* Command::Cd
ExecCd ==
    /\ pc = "execute"
    /\ command.variant = "Cd"
    /\ IF command.arg \in Directories
       THEN cwd' = command.arg /\ UNCHANGED terminal
       ELSE /\ cwd' = cwd
            /\ terminal' = terminal \o <<"cd: ">> \o command.arg
                              \o <<": No such file or directory\n">>
    /\ pc' = "executed"
    /\ UNCHANGED <<line, words, tokVars, parseVars, initial_files, files, calls,
                   path_dirs, resolved, child, loopVars>>

\* The line cat makes for a missing file.
CatErrorLine(file) == <<"cat: ">> \o file \o <<": No such file or directory\n">>

\* The local `output` after the loop over the arguments: the contents of the
\* files that exist, in argument order.
RECURSIVE CatOutput(_, _)
CatOutput(fs, args) ==
    IF args = <<>> THEN <<>>
    ELSE (IF MetadataIsErr(fs, Head(args)) THEN <<>> ELSE fs[Head(args)].content)
            \o CatOutput(fs, Tail(args))

\* Variant of CatError: the lines of all the missing files, in argument order.
RECURSIVE CatError_Accumulates(_, _, _)
CatError_Accumulates(fs, args, error) ==
    IF args = <<>> THEN error
    ELSE CatError_Accumulates(fs, Tail(args),
            IF MetadataIsErr(fs, Head(args)) THEN error \o CatErrorLine(Head(args))
            ELSE error)

\* The local `error` after the loop: each missing file assigns it anew.
RECURSIVE CatError(_, _, _)
CatError(fs, args, error) ==
    IF args = <<>> THEN error
    ELSE CatError(fs, Tail(args),
            IF MetadataIsErr(fs, Head(args)) THEN CatErrorLine(Head(args)) ELSE error)

\* fs::exists(path).is_err(): fs::exists answers Ok(true) or Ok(false) for a
\* path in a readable directory, whether or not the file is there.
FsExistsIsErr(fs, path) == FALSE

\* The first if of the redirection branch of cat.
CatEnsuresEmpty(fs, r) ==
    r.kind = "Redirect" \/ (r.kind = "Append" /\ FsExistsIsErr(fs, r.file))

\* fs::write in Redirect mode; otherwise OpenOptions::new().write(true)
\* .append(true).open(..).unwrap() and write_all, which panics on a missing
\* file since create is not set.
CatWrite(fs, r, text) ==
    IF r.kind = "Redirect" THEN [panic |-> FALSE, files |-> FsWrite(fs, r.file, text)]
    ELSE IF ~fs[r.file].exists THEN [panic |-> TRUE, files |-> fs]
    ELSE [panic |-> FALSE, files |-> FsAppend(fs, r.file, text)]

\* What cat prints when there is no redirection.
CatPrintsUnredirected(output, error) == IF error # <<>> THEN error ELSE output

\* The effect of Command::Cat: whether it panics, the files and what it
\* prints.
CatEffect(fs, args, r) ==
    LET output == CatOutput(fs, args)
        error == CatError(fs, args, <<>>)
    IN  IF ~r.some
        THEN [panic |-> FALSE, files |-> fs, prints |-> CatPrintsUnredirected(output, error)]
        ELSE LET fs1 == IF CatEnsuresEmpty(fs, r) THEN FsWrite(fs, r.file, <<>>) ELSE fs IN
             IF error # <<>> /\ r.channel = "Stderr"
             THEN LET w == CatWrite(fs1, r, error) IN
                  [panic |-> w.panic, files |-> w.files,
                   prints |-> IF w.panic THEN <<>> ELSE output]
             ELSE IF error # <<>> /\ r.channel = "Stdout"
             THEN LET w == CatWrite(fs1, r, output) IN
                  [panic |-> w.panic, files |-> w.files,
                   prints |-> IF w.panic THEN <<>> ELSE error]
             ELSE IF error = <<>> /\ r.channel = "Stdout"
             THEN LET w == CatWrite(fs1, r, output) IN
                  [panic |-> w.panic, files |-> w.files, prints |-> <<>>]
             ELSE [panic |-> FALSE, files |-> fs1, prints |-> output]

\* Command::Cat
ExecCat ==
    /\ pc = "execute"
    /\ command.variant = "Cat"
    /\ LET e == CatEffect(files, command.args, command.redirection) IN
       /\ files' = e.files
       /\ terminal' = terminal \o e.prints
       /\ pc' = IF e.panic THEN "panic_execute" ELSE "executed"
    /\ UNCHANGED <<line, words, tokVars, parseVars, initial_files, calls,
                   execVars, loopVars>>

\* The number of arguments of the commands executed.
MaxArgs == 2

\* The file each path holds when it holds one.
ContentOf(p) == IF p = P_f THEN <<"x">> ELSE <<"y">>

\* The commands execute is called on.
ExecCommands ==
    LET Redirs == Redirections \cup {None} IN
    {[variant |-> "Echo", args |-> a, redirection |-> r] :
        a \in SeqsUpTo({<<"a">>}, MaxArgs), r \in Redirs}
    \cup {[variant |-> "Exit", arg |-> 0]}
    \cup {[variant |-> "Type", arg |-> a, redirection |-> r] :
        a \in {W_echo, W_exit, W_type, W_pwd, W_cd, W_cat, W_ls}, r \in Redirs}
    \cup {[variant |-> "External", name |-> n, args |-> <<>>, redirection |-> r] :
        n \in {W_ls, W_seven}, r \in Redirs}
    \cup {[variant |-> "Pwd", redirection |-> r] : r \in Redirs}
    \cup {[variant |-> "Cd", arg |-> a] : a \in {Home, P_f}}
    \cup {[variant |-> "Cat", args |-> a, redirection |-> r] :
        a \in SeqsUpTo(Paths, MaxArgs), r \in Redirs}

\* execute is called on a command, with some directories in PATH and some
\* files present.
InitExec ==
    /\ pc = "execute"
    /\ line = <<>>
    /\ words = <<>>
    /\ TokenizeIdle
    /\ command_tokens = <<>>
    /\ redirection_tokens = <<>>
    /\ redirection = None
    /\ command \in ExecCommands
    /\ files \in [Paths -> {NoFile, File(<<"x">>), File(<<"y">>)}]
    /\ \A p \in Paths : files[p].exists => files[p] = File(ContentOf(p))
    /\ initial_files = files
    /\ terminal = <<>>
    /\ calls = <<>>
    /\ path_dirs \in SeqsUpTo(DirStates, MaxPathDirs)
    /\ resolved = NotResolved
    /\ child = NoChild
    /\ cwd = Cwd
    /\ LoopIdle

NextExec ==
    \/ ExecEcho
    \/ ExecExit
    \/ ExecType
    \/ ExecExternal
    \/ ExecPwd
    \/ ExecCd
    \/ ExecCat

SpecExec == InitExec /\ [][NextExec]_vars

----------------------------------------------------------------------------
(* The round trip: a token list joined with single spaces, then tokenized. *)

\* The inverse of Join on space-free tokens: cut s at every space.
RECURSIVE SplitOnSpace(_, _, _)
SplitOnSpace(s, done, piece) ==
    IF s = <<>> THEN Append(done, piece)
    ELSE IF Head(s) = SP THEN SplitOnSpace(Tail(s), Append(done, piece), <<>>)
    ELSE SplitOnSpace(Tail(s), done, Append(piece, Head(s)))

\* The token lists a line is joined from: for every l of at most MaxLineLen
\* characters, the space-free tokens l is the joined form of (empty tokens
\* included), and l itself as a single token, with or without spaces; and the
\* empty list.
WordListsOf(l) ==
    {SplitOnSpace(l, <<>>, <<>>), <<l>>} \cup (IF l = <<>> THEN {<<>>} ELSE {})

InitJoin ==
    /\ pc = "tokenize"
    /\ \E l \in SeqsUpTo(Chars, MaxLineLen) : words \in WordListsOf(l)
    /\ line = Join(words)
    /\ TokenizeIdle
    /\ ParseIdle
    /\ RouteIdle
    /\ ExecIdle
    /\ LoopIdle

SpecJoin == InitJoin /\ [][NextTokenize]_vars

----------------------------------------------------------------------------
(* Claims about tokenize.                                                  *)

Contains(s, S) == \E i \in 1..Len(s) : s[i] \in S

\* The maximal runs of non-whitespace characters of s, left to right.
RunStarts(s) ==
    {i \in 1..Len(s) : ~IsWhitespace(s[i]) /\ (i = 1 \/ IsWhitespace(s[i - 1]))}
RunEnd(s, i) ==
    CHOOSE j \in i..Len(s) :
        /\ \A k \in i..j : ~IsWhitespace(s[k])
        /\ (j = Len(s) \/ IsWhitespace(s[j + 1]))
NthRunStart(s, n) ==
    CHOOSE i \in RunStarts(s) : Cardinality({j \in RunStarts(s) : j < i}) = n - 1
NonWhitespaceRuns(s) ==
    [n \in 1..Cardinality(RunStarts(s)) |->
        SubSeq(s, NthRunStart(s, n), RunEnd(s, NthRunStart(s, n)))]

\* C1: for every line without a single quote, a double quote or a backslash,
\* tokenize returns exactly the maximal non-whitespace runs of the line, in
\* order; runs of whitespace, leading and trailing included, give no token.
C1_WhitespaceSplit ==
    (pc = "tokenized" /\ ~Contains(line, {SQ, DQ, BS}))
        => tokens = NonWhitespaceRuns(line)

\* A line "a<ws><ws>a"-like: two tokens separated by a run of two whitespace
\* characters, tokenized to two tokens.
C1_Witness ==
    /\ pc = "tokenized"
    /\ ~Contains(line, {SQ, DQ, BS})
    /\ Len(tokens) = 2
    /\ \E i \in 2..(Len(line) - 2) : IsWhitespace(line[i]) /\ IsWhitespace(line[i + 1])

\* C2: between an opening single quote (met outside double quotes) and the
\* next single quote every character is appended to the current token
\* unchanged: whitespace does not split, a backslash starts no escape, a
\* double quote toggles nothing, and neither the opening nor the closing
\* quote is emitted.
C2_SingleQuoteVerbatim ==
    [][ /\ (Scanning /\ ~to_escape /\ ~in_double_quote /\ c = SQ)
            => /\ in_single_quote' = ~in_single_quote
               /\ UNCHANGED <<curr, tokens, in_double_quote, to_escape>>
        /\ (Scanning /\ in_single_quote /\ c # SQ)
            => /\ curr' = Append(curr, c)
               /\ ~in_double_quote /\ ~to_escape
               /\ UNCHANGED <<tokens, in_single_quote, in_double_quote, to_escape>>
      ]_vars

\* The line '\ ' (quote, backslash, space, quote) gave the one token "\ ".
C2_Witness ==
    /\ pc = "tokenized"
    /\ line = <<SQ, BS, SP, SQ>>
    /\ tokens = << <<BS, SP>> >>

\* C3: inside double quotes a backslash emits nothing by itself; the next
\* character ch is emitted alone when it is a double quote, a backslash, a
\* backtick or a dollar, and as backslash + ch otherwise; ch toggles no quote
\* mode, ends no token and starts no escape.
C3_DoubleQuoteEscape ==
    [][ /\ (Scanning /\ in_double_quote /\ ~to_escape /\ c = BS)
            => /\ to_escape'
               /\ UNCHANGED <<curr, tokens, in_single_quote, in_double_quote>>
        /\ (Scanning /\ in_double_quote /\ to_escape)
            => /\ curr' = curr \o (IF c \in {DQ, BS, BT, DL} THEN <<c>> ELSE <<BS, c>>)
               /\ ~to_escape'
               /\ UNCHANGED <<tokens, in_single_quote, in_double_quote>>
      ]_vars

\* The line "\'" (double quote, backslash, single quote, double quote) gave
\* the one token \' with the backslash kept.
C3_Witness ==
    /\ pc = "tokenized"
    /\ line = <<DQ, BS, SQ, DQ>>
    /\ tokens = << <<BS, SQ>> >>

\* C4: outside all quoting a backslash emits nothing by itself and the next
\* character ch is emitted alone, whatever it is: an escaped whitespace ends
\* no token, an escaped quote opens no quote mode, an escaped backslash
\* starts no escape.
C4_UnquotedEscape ==
    [][ /\ (Scanning /\ ~in_single_quote /\ ~in_double_quote /\ ~to_escape /\ c = BS)
            => /\ to_escape'
               /\ UNCHANGED <<curr, tokens, in_single_quote, in_double_quote>>
        /\ (Scanning /\ ~in_single_quote /\ ~in_double_quote /\ to_escape)
            => /\ curr' = Append(curr, c)
               /\ ~to_escape'
               /\ UNCHANGED <<tokens, in_single_quote, in_double_quote>>
      ]_vars

\* The line a\ a gave the one token "a a".
C4_Witness ==
    /\ pc = "tokenized"
    /\ line = <<"a", BS, SP, "a">>
    /\ tokens = << <<"a", SP, "a">> >>

\* C5 as stated: for a token list without quote characters and spaces,
\* tokenizing the space-joined list gives the list back.
C5_RoundTrip_AsStated ==
    (pc = "tokenized" /\ \A i \in 1..Len(words) : ~Contains(words[i], {SQ, DQ, SP}))
        => tokens = words

\* C5 amended: for a list of non-empty tokens without quote characters,
\* whitespace and backslashes, tokenizing the space-joined list gives the
\* list back.
RoundTrippable(w) == w # <<>> /\ ~Contains(w, {SQ, DQ, BS}) /\ ~\E i \in 1..Len(w) : IsWhitespace(w[i])
C5_RoundTrip ==
    (pc = "tokenized" /\ \A i \in 1..Len(words) : RoundTrippable(words[i]))
        => tokens = words

\* Two round-trippable tokens came back from their joined line.
C5_Witness ==
    /\ pc = "tokenized"
    /\ Len(words) = 2
    /\ \A i \in 1..Len(words) : RoundTrippable(words[i])
    /\ line = Join(words)
    /\ tokens = words

----------------------------------------------------------------------------
(* Claims about split_tokens, parse_redirection and parse.                 *)

IsOperator(t) ==
    t \in { <<">">>, <<"1", ">">>, <<"2", ">">>, <<">", ">">>, <<"1", ">", ">">>,
            <<"2", ">", ">">> }
OperatorPositions(ts) == {i \in 1..Len(ts) : IsOperator(ts[i])}
FirstOperator(ts) ==
    CHOOSE i \in OperatorPositions(ts) : \A j \in OperatorPositions(ts) : i <= j

\* C6: split_tokens cuts at the first token equal to one of the six
\* operators: command_tokens is the prefix before it, redirection_tokens the
\* operator and everything after it, in order; without an operator,
\* command_tokens is the whole input and redirection_tokens is empty.
C6_SplitAtFirstOperator ==
    pc = "split_done" =>
        /\ command_tokens \o redirection_tokens = tokens
        /\ IF OperatorPositions(tokens) = {}
           THEN command_tokens = tokens /\ redirection_tokens = <<>>
           ELSE /\ command_tokens = SubSeq(tokens, 1, FirstOperator(tokens) - 1)
                /\ redirection_tokens = SubSeq(tokens, FirstOperator(tokens), Len(tokens))

\* A list with a command token, then an operator, then a later non-operator
\* token was split after its first token.
C6_Witness ==
    /\ pc = "split_done"
    /\ Len(tokens) = 3
    /\ OperatorPositions(tokens) = {2}
    /\ Len(command_tokens) = 1
    /\ Len(redirection_tokens) = 2

\* The directive the fixed table gives for an operator and a path.
TableDirective(op, path) ==
    IF op \in {<<">">>, <<"1", ">">>} THEN Some("Redirect", "Stdout", path)
    ELSE IF op = <<"2", ">">> THEN Some("Redirect", "Stderr", path)
    ELSE IF op \in {<<">", ">">>, <<"1", ">", ">">>} THEN Some("Append", "Stdout", path)
    ELSE Some("Append", "Stderr", path)

\* C7: parse_redirection returns no directive for an empty list; for a list
\* whose first token is an operator it returns the table's directive with the
\* second token as path, later tokens being ignored; for any other first
\* token it returns no directive.
C7_RedirectionTable ==
    /\ pc # "panic_parse_redirection"
    /\ pc \in {"redirection_done", "redirection_returned"} =>
         redirection =
            IF redirection_tokens = <<>> THEN None
            ELSE IF IsOperator(redirection_tokens[1])
            THEN TableDirective(redirection_tokens[1], redirection_tokens[2])
            ELSE None

\* The arguments the claim gives a command: the remaining tokens, for cat and
\* cd with a leading ~ replaced by the HOME value.
ClaimedExpand(t) == IF t # <<>> /\ t[1] = "~" THEN Home \o SubSeq(t, 2, Len(t)) ELSE t
ClaimedArgs(cts, expand) ==
    [i \in 1..(Len(cts) - 1) |-> IF expand THEN ClaimedExpand(cts[i + 1]) ELSE cts[i + 1]]

\* C8: the command builder chooses the variant from the first command token
\* alone; the arguments are the remaining command tokens in order (home
\* expanded for cat and cd); exit's code is the second token as an integer,
\* or 0 when absent; the directive is attached unchanged to every variant
\* except Exit and Cd.
C8_CommandBuilder ==
    (pc \in {"parsed", "panic_parse"} /\ command_tokens # <<>>) =>
        /\ pc = "parsed"
        /\ LET first == command_tokens[1] IN
           /\ command.variant =
                IF first = W_echo THEN "Echo"
                ELSE IF first = W_exit THEN "Exit"
                ELSE IF first = W_type THEN "Type"
                ELSE IF first = W_pwd THEN "Pwd"
                ELSE IF first = W_cd THEN "Cd"
                ELSE IF first = W_cat THEN "Cat"
                ELSE "External"
           /\ command.variant = "External" => command.name = first
           /\ command.variant \in {"Echo", "External"} =>
                command.args = ClaimedArgs(command_tokens, FALSE)
           /\ command.variant = "Cat" => command.args = ClaimedArgs(command_tokens, TRUE)
           /\ command.variant = "Type" => <<command.arg>> = ClaimedArgs(command_tokens, FALSE)
           /\ command.variant = "Cd" => <<command.arg>> = ClaimedArgs(command_tokens, TRUE)
           /\ command.variant = "Exit" =>
                command.arg = IF Len(command_tokens) > 1
                              THEN ParseI32(command_tokens[2]).value ELSE 0
           /\ command.variant \notin {"Exit", "Cd"} => command.redirection = redirection

----------------------------------------------------------------------------
(* Claims about write_output.                                              *)

\* Every call so far had a redirection of this kind to this path, and a
\* chunk on the redirection's channel.
AllCallsMatch(kind, path) ==
    \A i \in 1..Len(calls) :
        /\ calls[i].redirection.some
        /\ calls[i].redirection.kind = kind
        /\ calls[i].redirection.file = path
        /\ calls[i].success = (calls[i].redirection.channel = "Stdout")

\* C9: after one or more Truncate-mode calls on the same file, each with a
\* chunk on the directive's channel, the file holds exactly the last chunk.
C9_TruncateLastWins ==
    \A path \in Paths :
        (calls # <<>> /\ AllCallsMatch("Redirect", path))
            => files[path] = File(calls[Len(calls)].output)

\* The same non-empty chunk was routed twice in Truncate mode to a file that
\* held other content before.
C9_Witness ==
    /\ Len(calls) = 2
    /\ AllCallsMatch("Redirect", P_f)
    /\ calls[1].output = <<"a">>
    /\ calls[2].output = <<"a">>
    /\ initial_files[P_f] = File(<<"x">>)
    /\ files[P_f] = File(<<"a">>)

RECURSIVE ConcatOutputs(_)
ConcatOutputs(cs) ==
    IF cs = <<>> THEN <<>> ELSE cs[1].output \o ConcatOutputs(Tail(cs))

\* C10: starting from a path that does not exist, after k >= 1 Append-mode
\* calls with chunks t1..tk on the directive's channel the file exists and
\* holds t1 t2 ... tk.
C10_AppendAccumulates ==
    \A path \in Paths :
        (calls # <<>> /\ AllCallsMatch("Append", path) /\ ~initial_files[path].exists)
            => files[path] = File(ConcatOutputs(calls))

\* Two non-empty chunks were appended to a file that did not exist.
C10_Witness ==
    /\ Len(calls) = 2
    /\ AllCallsMatch("Append", P_f)
    /\ ~initial_files[P_f].exists
    /\ calls[1].output = <<"a">>
    /\ calls[2].output = <<"b">>
    /\ files[P_f] = File(<<"a", "b">>)

\* The call write_output has just made, when this step is one.
IsCall == calls' # calls
LastCall == calls'[Len(calls')]
MismatchCall ==
    /\ IsCall
    /\ LastCall.redirection.some
    /\ LastCall.success # (LastCall.redirection.channel = "Stdout")

\* C11 as stated: a call with a directive of either mode and a chunk on the
\* other channel leaves the destination file's content untouched and prints
\* the chunk's text.
C11_MismatchUntouched_AsStated ==
    [][ MismatchCall =>
            /\ files'[LastCall.redirection.file] = files[LastCall.redirection.file]
            /\ terminal' = terminal \o LastCall.output
      ]_vars

\* C11 amended: a call with a directive and a chunk on the other channel
\* prints the chunk's text and writes none of it to a file; in Append mode an
\* existing destination keeps its content, in Truncate mode, and in Append
\* mode on a missing path, the destination is left empty; no other file
\* changes.
C11_MismatchPassthrough ==
    [][ MismatchCall =>
            LET r == LastCall.redirection IN
            /\ terminal' = terminal \o LastCall.output
            /\ files'[r.file] =
                 IF r.kind = "Append" /\ files[r.file].exists
                 THEN files[r.file] ELSE File(<<>>)
            /\ \A p \in Paths \ {r.file} : files'[p] = files[p]
      ]_vars

\* A stderr chunk met a Truncate-mode stdout directive whose file held
\* content: the text is on the terminal and the file is empty.
C11_Witness ==
    /\ Len(calls) = 1
    /\ calls[1].redirection = Some("Redirect", "Stdout", P_f)
    /\ ~calls[1].success
    /\ calls[1].output = <<"a">>
    /\ initial_files[P_f] = File(<<"x">>)
    /\ files[P_f] = File(<<>>)
    /\ terminal = <<"a">>

----------------------------------------------------------------------------
(* Claims about execute.                                                   *)

\* text occurs in whole as a contiguous piece.
IsInfix(text, whole) ==
    \E i \in 0..(Len(whole) - Len(text)) : SubSeq(whole, i + 1, i + Len(text)) = text

RanChild ==
    /\ pc = "executed"
    /\ command.variant = "External"
    /\ resolved.called /\ resolved.ok
    /\ child.spawned

\* C12: when an External command is found and run, with any directive and
\* either exit status, the child's output on the channel the directive does
\* not name is printed to the terminal; only the matching channel's text is
\* taken off the terminal.
C12_OtherChannelPrinted ==
    (RanChild /\ command.redirection.some) =>
        terminal = IF command.redirection.channel = "Stdout"
                   THEN child.stderr ELSE child.stdout

\* The name the handler looked up.
LookedUp == IF command.variant = "Type" THEN command.arg ELSE command.name
PathHit(i) == path_dirs[i].readable /\ LookedUp \in path_dirs[i].entries
PathStops == {i \in 1..Len(path_dirs) : PathHit(i) \/ ~path_dirs[i].readable}
FirstStop == CHOOSE i \in PathStops : \A j \in PathStops : i <= j

\* C13: path resolution reads the directories in listed order and returns
\* the entry's full path from the first directory holding the name; an
\* unreadable directory reached before any match fails the resolution at
\* once with that directory's read error, whatever later directories hold;
\* not found is reported only when every directory was read and none holds
\* the name.
C13_PathResolution ==
    (pc = "executed" /\ resolved.called) =>
        IF PathStops = {}
        THEN /\ ~resolved.ok
             /\ resolved.value = LookedUp \o <<" not found">>
             /\ resolved.read = Len(path_dirs)
        ELSE /\ resolved.read = FirstStop
             /\ IF PathHit(FirstStop)
                THEN resolved.ok /\ resolved.value = DirName(FirstStop) \o <<"/">> \o LookedUp
                ELSE ~resolved.ok /\ resolved.value = ReadError(DirName(FirstStop))

\* The first directory was unreadable and the second held the program: the
\* resolution failed with the first directory's read error.
C13_Witness ==
    /\ pc = "executed"
    /\ resolved.called
    /\ Len(path_dirs) = 2
    /\ ~path_dirs[1].readable
    /\ LookedUp \in path_dirs[2].entries
    /\ ~resolved.ok
    /\ resolved.value = ReadError(DirName(1))
    /\ resolved.read = 1

FiveBuiltins == {W_echo, W_exit, W_type, W_pwd, W_cd}

\* C14: Type{arg} produces '<arg> is a shell builtin' when arg is echo, exit,
\* type, pwd or cd, and then no path search is made; otherwise '<arg> is
\* <path>' when the resolution gives <path>; otherwise '<arg>: not found'.
\* is_builtin is true of exactly those five names.
C14_TypeTexts ==
    /\ \A n \in Vocabulary : is_builtin(n) <=> n \in FiveBuiltins
    /\ (pc = "executed" /\ command.variant = "Type") =>
         /\ Len(calls) = 1
         /\ IF command.arg \in FiveBuiltins
            THEN /\ ~resolved.called
                 /\ calls[1].output = command.arg \o <<" is a shell builtin\n">>
            ELSE /\ resolved.called
                 /\ calls[1].output =
                      IF resolved.ok
                      THEN command.arg \o <<" is ">> \o resolved.value \o <<"\n">>
                      ELSE command.arg \o <<": not found\n">>

\* type echo, with an entry named echo in the first directory of PATH: the
\* builtin text, and no directory read.
C14_Witness ==
    /\ pc = "executed"
    /\ command.variant = "Type"
    /\ command.arg = W_echo
    /\ Len(path_dirs) > 0
    /\ path_dirs[1].readable /\ W_echo \in path_dirs[1].entries
    /\ ~resolved.called
    /\ terminal = W_echo \o <<" is a shell builtin\n">>

\* C15: a type without argument, or an exit whose argument is no integer,
\* aborts only the handling of its line; the interpreter does not crash.
C15_MalformedRecoverable ==
    ~(/\ pc = "panic_parse"
      /\ command_tokens # <<>>
      /\ command_tokens[1] \in {W_type, W_exit})

LookupFailed ==
    /\ pc = "executed"
    /\ command.variant \in {"Type", "External"}
    /\ resolved.called /\ ~resolved.ok

LookupFailureText ==
    IF command.variant = "Type" THEN command.arg \o <<": not found\n">>
    ELSE command.name \o <<": command not found\n">>

\* C17: the texts '<name>: not found' of type and '<name>: command not found'
\* of an execution attempt are stderr chunks: with a Stderr directive the
\* text goes to the file and not to the terminal, with a Stdout directive to
\* the terminal and not to the file.
C17_LookupFailureOnStderr ==
    (LookupFailed /\ command.redirection.some) =>
        LET r == command.redirection IN
        /\ ~calls[1].success
        /\ IF r.channel = "Stderr"
           THEN terminal = <<>> /\ IsInfix(LookupFailureText, files[r.file].content)
           ELSE terminal = LookupFailureText
                /\ ~IsInfix(LookupFailureText, files[r.file].content)

RanCat == pc \in {"executed", "panic_execute"} /\ command.variant = "Cat"
MissingArgs == {i \in 1..Len(command.args) : ~initial_files[command.args[i]].exists}

\* C18: cat without redirection prints every chunk it produced: the
\* concatenated contents of the files that exist and the error text for the
\* missing ones.
C18_CatPrintsBothChunks ==
    (RanCat /\ ~command.redirection.some) =>
        /\ pc = "executed"
        /\ IsInfix(CatOutput(initial_files, command.args), terminal)
        /\ IsInfix(CatError(initial_files, command.args, <<>>), terminal)

\* C19: cat with an Append directive whose destination does not exist creates
\* the file before any write, so it completes without failure and the file
\* exists afterwards, whichever branch is taken.
C19_CatAppendCreates ==
    (/\ RanCat
     /\ command.redirection.some
     /\ command.redirection.kind = "Append"
     /\ ~initial_files[command.redirection.file].exists) =>
        /\ pc = "executed"
        /\ files[command.redirection.file].exists

\* Where the stderr text of a cat went: the file of a Stderr directive, else
\* the terminal.
CatStderrText ==
    IF command.redirection.some /\ command.redirection.channel = "Stderr"
    THEN (IF files[command.redirection.file].exists
          THEN files[command.redirection.file].content ELSE <<>>)
    ELSE terminal

\* C20: for each argument that does not exist, the stderr text of the cat
\* holds the line 'cat: <file>: No such file or directory', also when two or
\* more arguments are missing.
C20_CatReportsEveryMissing ==
    (pc = "executed" /\ command.variant = "Cat") =>
        \A i \in MissingArgs : IsInfix(CatErrorLine(command.args[i]), CatStderrText)

----------------------------------------------------------------------------
(* The read-eval loop of main.rs.  events records each prompt written and  *)
(* each line read, in order.                                               *)

MaxLines == 2

\* The lines standard input may hold.
LoopLines ==
    { W_exit,
      W_echo \o <<SP, "a">>,
      W_type,
      W_type \o <<SP>> \o W_ls,
      W_pwd,
      W_ls }

\* The directories PATH may list.
LoopDirStates ==
    { [readable |-> FALSE, entries |-> {}],
      [readable |-> TRUE, entries |-> {}],
      [readable |-> TRUE, entries |-> {W_ls}] }

PromptEvent == [kind |-> "prompt", line |-> <<>>]
ReadEvent(l) == [kind |-> "read", line |-> l]

\* print!("$ "); io::stdout().flush()
Prompt(printed) ==
    /\ terminal' = terminal \o printed \o <<"$ ">>
    /\ events' = Append(events, PromptEvent)

\* input.trim().split(" ")
MainSplit(l) == SplitOnSpace(Trim(l), <<>>, <<>>)

main_parse_command(split) ==
    IF Len(split) = 0 THEN [variant |-> "INVALID", text |-> <<>>]
    ELSE IF split[1] = W_exit
    THEN [variant |-> "EXIT", text |-> IF Len(split) > 1 THEN split[2] ELSE <<>>]
    ELSE IF split[1] = W_echo
    THEN [variant |-> "ECHO", text |-> Join(Tail(split))]
    ELSE IF split[1] = W_type
    THEN (IF Len(split) < 2
          THEN [variant |-> "INVALID", text |-> <<"type:", SP, "missing", SP, "argument">>]
          ELSE [variant |-> "TYPE", text |-> split[2]])
    ELSE IF split[1] = W_pwd
    THEN [variant |-> "PWD", text |-> cwd]
    ELSE [variant |-> "INVALID", text |-> Join(split)]

main_is_builtin(name) == name \in {W_exit, W_echo, W_type, W_pwd}

is_present_in_path(dirs, program) == SearchPath(dirs, 1, program)

\* The command of the line being handled.
MainCommand == main_parse_command(MainSplit(input))

loopFrame == <<line, words, idx, tokens, curr, in_single_quote, in_double_quote,
               to_escape, parseVars, initial_files, files, calls, path_dirs, cwd>>

\* main, up to the for loop
MainBegin ==
    /\ pc = "main"
    /\ Prompt(<<>>)
    /\ pc' = "read"
    /\ UNCHANGED <<loopFrame, input, stdin, resolved, child>>

\* stdin.lines(): the next line, or the end of the loop at end of input.
ReadLine ==
    /\ pc = "read"
    /\ IF stdin = <<>>
       THEN pc' = "eof" /\ UNCHANGED <<input, stdin, events>>
       ELSE /\ input' = Head(stdin)
            /\ stdin' = Tail(stdin)
            /\ events' = Append(events, ReadEvent(Head(stdin)))
            /\ pc' = "handle"
    /\ UNCHANGED <<loopFrame, terminal, resolved, child>>

\* Command::INVALID
HandleInvalid ==
    /\ pc = "handle"
    /\ MainCommand.variant = "INVALID"
    /\ LET text == MainCommand.text
           split == SplitOnSpace(text, <<>>, <<>>)
           option == is_present_in_path(path_dirs, split[1])
       IN /\ resolved' = option
          /\ IF option.ok
             THEN \E outcome \in ChildOutcomes :
                    /\ child' = outcome
                    /\ IF ~outcome.spawned
                       THEN pc' = "panic_handle" /\ UNCHANGED <<terminal, events>>
                       ELSE /\ pc' = "read"
                            /\ Prompt(IF outcome.success THEN outcome.stdout ELSE <<>>)
             ELSE /\ child' = child
                  /\ pc' = "read"
                  /\ Prompt(text \o <<": command not found\n">>)
    /\ UNCHANGED <<loopFrame, input, stdin>>

\* Command::EXIT: handle_command returns it and main returns.
HandleExit ==
    /\ pc = "handle"
    /\ MainCommand.variant = "EXIT"
    /\ pc' = "exited"
    /\ UNCHANGED <<loopFrame, input, stdin, events, terminal, resolved, child>>

\* Command::ECHO
HandleEcho ==
    /\ pc = "handle"
    /\ MainCommand.variant = "ECHO"
    /\ Prompt(MainCommand.text \o <<"\n">>)
    /\ pc' = "read"
    /\ UNCHANGED <<loopFrame, input, stdin, resolved, child>>

\* Command::TYPE
HandleType ==
    /\ pc = "handle"
    /\ MainCommand.variant = "TYPE"
    /\ LET name == MainCommand.text
           option == is_present_in_path(path_dirs, name)
       IN IF main_is_builtin(name)
          THEN /\ resolved' = NotResolved
               /\ Prompt(name \o <<" is a shell builtin\n">>)
          ELSE /\ resolved' = option
               /\ Prompt(IF option.ok
                         THEN name \o <<" is ">> \o option.value \o <<"\n">>
                         ELSE name \o <<": not found\n">>)
    /\ pc' = "read"
    /\ UNCHANGED <<loopFrame, input, stdin, child>>

\* Command::PWD
HandlePwd ==
    /\ pc = "handle"
    /\ MainCommand.variant = "PWD"
    /\ Prompt(MainCommand.text \o <<"\n">>)
    /\ pc' = "read"
    /\ UNCHANGED <<loopFrame, input, stdin, resolved, child>>

InitLoop ==
    /\ pc = "main"
    /\ line = <<>>
    /\ words = <<>>
    /\ TokenizeIdle
    /\ ParseIdle
    /\ RouteIdle
    /\ path_dirs \in SeqsUpTo(LoopDirStates, MaxPathDirs)
    /\ resolved = NotResolved
    /\ child = NoChild
    /\ cwd = Cwd
    /\ stdin \in SeqsUpTo(LoopLines, MaxLines)
    /\ events = <<>>

NextLoop ==
    \/ MainBegin
    \/ ReadLine
    \/ HandleInvalid
    \/ HandleExit
    \/ HandleEcho
    \/ HandleType
    \/ HandlePwd

SpecLoop == InitLoop /\ [][NextLoop]_vars

IsRead(i) == events[i].kind = "read"
IsPrompt(i) == events[i].kind = "prompt"
IsExitLine(l) == MainSplit(l)[1] = W_exit
LoopEnded == pc \notin {"main", "read", "handle"}

\* C16: every line read is preceded by exactly one prompt written since the
\* read before it; every line that is no exit is followed by a new prompt
\* once it is handled; after an exit nothing more is prompted or read; and
\* the loop ends only on an exit (or at the end of the input).
C16_LoopProtocol ==
    /\ \A i \in 1..Len(events) :
         IsRead(i) => /\ i > 1 /\ IsPrompt(i - 1)
                      /\ (i > 2 => IsRead(i - 2))
    /\ \A i \in 1..Len(events) :
         (IsRead(i) /\ ~IsExitLine(events[i].line) /\ (i < Len(events) \/ pc # "handle"))
            => (i < Len(events) /\ IsPrompt(i + 1))
    /\ \A i \in 1..Len(events) :
         (IsRead(i) /\ IsExitLine(events[i].line))
            => (i = Len(events) /\ pc \in {"handle", "exited"})
    /\ LoopEnded =>
         \/ pc = "eof"
         \/ (events # <<>> /\ IsRead(Len(events)) /\ IsExitLine(events[Len(events)].line))

----------------------------------------------------------------------------
(* Spawn failure, totality of parse_command, directive paths, tokenizer    *)
(* flags.                                                                  *)

SpawnFailed ==
    /\ command.variant = "External"
    /\ resolved.called /\ resolved.ok
    /\ child = [spawned |-> FALSE, failed |-> TRUE]

\* C21: when the program of an External command is found but the child
\* cannot be spawned, the outcome is that of a lookup failure: the text
\* '<name>: command not found' is reported as a stderr chunk and the
\* execution completes, so that the interpreter goes on with the next line.
C21_SpawnFailureAsNotFound ==
    SpawnFailed =>
        /\ pc = "executed"
        /\ Len(calls) = 1
        /\ calls[1].output = command.name \o <<": command not found\n">>
        /\ ~calls[1].success

\* parse_command, or its part after tokenize, ended in a panic.
ParseCommandPanicked ==
    \/ pc = "panic_parse"
    \/ (pc = "panic_parse_redirection" /\ tokens # <<>>)

\* C22: for every input line, the empty line and a line of only whitespace
\* included, parse_command yields exactly one Command value; it never fails
\* to produce a command.
C22_AlwaysOneCommand ==
    /\ ~ParseCommandPanicked
    /\ (pc = "parsed" => command # NoCommand)

MaxTailLen == 3

\* parse_command on the lines `a <operator> <tail>`: a command word, one of
\* the operators, and up to MaxTailLen characters after it.
InitPath ==
    /\ pc = "tokenize"
    /\ \E op \in REDIRECT_OPERATORS, tail \in SeqsUpTo(Chars, MaxTailLen) :
         line = <<"a", SP>> \o op \o <<SP>> \o tail
    /\ words = <<>>
    /\ TokenizeIdle
    /\ ParseIdle
    /\ RouteIdle
    /\ ExecIdle
    /\ LoopIdle

SpecPath == InitPath /\ [][Next]_vars

HasDirective(cmd) == "redirection" \in DOMAIN cmd /\ cmd.redirection.some

\* C23: every directive parse_command attaches to a Command has a non-empty
\* path, on every line; a line whose operator is followed by an empty quoted
\* string, or by nothing, yields no Command with an empty-path directive.
C23_DirectivePathNonEmpty ==
    /\ \A i \in 1..Len(tokens) : tokens[i] # <<>>
    /\ (pc = "parsed" /\ HasDirective(command)) => command.redirection.file # <<>>

\* The line `a > ""a`: the empty quoted string adds nothing to the token,
\* and the directive's path is a.
C23_Witness ==
    /\ pc = "parsed"
    /\ line = <<"a", SP, GT, SP, DQ, DQ, "a">>
    /\ HasDirective(command)
    /\ command.redirection.file = <<"a">>

\* A character step of the loop of tokenize.
CharacterStep == pc = "scan" /\ idx' = idx + 1

\* C24: after every character step of tokenize, on every input, single-quote
\* mode excludes the two other flags (in_single_quote implies neither
\* in_double_quote nor to_escape), and a pending escape lasts one character:
\* when to_escape is set before a character is processed, it is cleared
\* after that character.
C24_TokenizerFlags ==
    /\ [](in_single_quote => (~in_double_quote /\ ~to_escape))
    /\ [][(CharacterStep /\ to_escape) => ~to_escape']_vars

\* The input \a' after its three characters: the escape set by the backslash
\* was cleared by a, and the quote then opened single-quote mode.
C24_Witness ==
    /\ pc = "scan"
    /\ input = <<BS, "a", SQ>>
    /\ idx = 4
    /\ in_single_quote
    /\ ~in_double_quote
    /\ ~to_escape
    /\ curr = <<"a">>

====
